---- MODULE Spec2Model ----
(***************************************************************************)
(* Portfolio ledger of StockSimulatorApp (src/StockSimulatorApp/App.tsx,   *)
(* lines 107-286): getPortfolio, savePortfolio, initializePortfolio,       *)
(* clearPortfolio, buyStock and sellStock over one AsyncStorage key.       *)
(*                                                                         *)
(* Numbers: quantities, prices and cash are integers; purchasePrice, the   *)
(* only value the code obtains by division, is an exact rational <<n, d>>  *)
(* in lowest terms (d > 0).                                                *)
(*                                                                         *)
(* Object identity: `{ ...defaultPortfolio }` copies the cash field but    *)
(* shares the holdings ARRAY of the module-level defaultPortfolio.  A      *)
(* portfolio in memory therefore carries the field `aliased`: TRUE when    *)
(* its holdings array is defaultPortfolio.holdings itself, FALSE when it   *)
(* is a fresh array built by JSON.parse.                                   *)
(*                                                                         *)
(* The calls are modelled twice: each as one atomic action (Spec, SpecF,   *)
(* SpecM), and split at the awaits of their AsyncStorage operations, so    *)
(* that calls of several callers interleave (SpecC, SpecL).  SpecU adds    *)
(* the trade screen, screens/StockDetailScreen.tsx, whose Confirm button   *)
(* starts the buys and sells.                                              *)
(* SpecR is the save/load round trip over arbitrary ledgers, SpecD the     *)
(* atomic calls with more than one description per symbol.                 *)
(***************************************************************************)
EXTENDS Integers, Sequences, FiniteSets, TLC

VARIABLES
    storage,          \* AsyncStorage[PORTFOLIO_STORAGE_KEY]: <<>> (no item) or <<blob>>
    defaultHoldings,  \* the array object defaultPortfolio.holdings
    mem,              \* <<>> or <<p>>: the portfolio object the latest call obtained
    last,             \* record of the latest completed call (history)
    nops,             \* number of calls made
    nfail,            \* number of AsyncStorage operations that failed so far
    calls,            \* the calls in progress, by caller, each at one of its awaits
    clock,            \* number of writes and removals the storage key has taken
    screen            \* the state of StockDetailScreen and what it has shown

vars == <<storage, defaultHoldings, mem, last, nops, nfail, calls, clock, screen>>

----------------------------------------------------------------------------
(* Bounds of the exploration *)

MaxOps == 4         \* calls in a run
MaxOpsF == 3        \* calls in a run where storage operations may fail (at most MaxOps)
MaxQty == 2         \* largest quantity of one order
MaxFailures == 1    \* storage operations that fail in a run
MaxCalls == 2       \* calls started in a run where calls overlap
MaxEvents == 3      \* presses, edits and price moves in a run of the trade screen

\* the callers whose calls may overlap
Callers == {"a", "b"}

Symbols      == {"AAPL", "MSFT"}
Descriptions == {"APPLE INC"}
Prices       == {25000, 50000}

\* <<quantity, price>> of the orders: the positive pairs of the smallest and
\* of the largest quantity, and pairs with a zero or negative quantity, a zero
\* or negative price, or both
ValidOrders   == {1, MaxQty} \X Prices
InvalidOrders == {<<0, 25000>>, <<-1, 50000>>, <<1, 0>>, <<2, -25000>>, <<0, 0>>}
Orders        == ValidOrders \cup InvalidOrders

----------------------------------------------------------------------------
(* Program constants *)

INITIAL_CASH == 100000

----------------------------------------------------------------------------
(* Exact rationals for purchasePrice *)

RECURSIVE GCD(_, _)
GCD(a, b) == IF b = 0 THEN a ELSE GCD(b, a % b)

Norm(n, d) == LET g == GCD(n, d) IN <<n \div g, d \div g>>

\* price as stored by `purchasePrice: price`
Num(price) == <<price, 1>>

----------------------------------------------------------------------------
(* JSON.stringify / JSON.parse of a Portfolio: the blob keeps the own      *)
(* enumerable fields and their values; parsing builds fresh objects, so    *)
(* the parsed holdings array is never the default one.                     *)

\* a number in JSON text: NaN and the infinities (here n/0) are written as
\* null, <<>>; every finite number is written so that it reads back as itself
JSONNumber(number) == IF number[2] = 0 THEN <<>> ELSE number

\* (mutant: the basis is written with toFixed(0))
JSONStringifyRounded(portfolio) ==
    [cash |-> portfolio.cash,
     holdings |-> [i \in 1 .. Len(portfolio.holdings) |->
                     [portfolio.holdings[i] EXCEPT
                         !.purchasePrice =
                            IF @[2] = 0 THEN <<>>
                            ELSE <<(2 * @[1] + @[2]) \div (2 * @[2]), 1>>]]]

JSONStringify(portfolio) ==
    [cash |-> portfolio.cash,
     holdings |-> [i \in 1 .. Len(portfolio.holdings) |->
                     [portfolio.holdings[i] EXCEPT !.purchasePrice = JSONNumber(@)]]]

JSONParse(jsonValue) ==
    [f \in (DOMAIN jsonValue) \cup {"aliased"} |->
        IF f = "aliased" THEN FALSE ELSE jsonValue[f]]

\* { ...defaultPortfolio }
DefaultCopy(dh) == [cash |-> INITIAL_CASH, holdings |-> dh, aliased |-> TRUE]

\* typeof portfolio.cash === 'undefined' || typeof portfolio.holdings === 'undefined'
Malformed(portfolio) ==
    \/ "cash" \notin DOMAIN portfolio
    \/ "holdings" \notin DOMAIN portfolio

\* getPortfolio: <<>> stands for null
\* (mutant: a blob that lacks a field is completed from the default instead
\* of being dropped, as in { ...defaultPortfolio, ...portfolio })
GetPortfolioMerging(st, dh, readOk) ==
    IF ~readOk THEN <<>>
    ELSE IF st # <<>> THEN
        LET portfolio == JSONParse(st[1]) IN
        <<[cash     |-> IF "cash" \in DOMAIN portfolio
                        THEN portfolio.cash ELSE INITIAL_CASH,
           holdings |-> IF "holdings" \in DOMAIN portfolio
                        THEN portfolio.holdings ELSE dh,
           aliased  |-> "holdings" \notin DOMAIN portfolio]>>
    ELSE <<>>

GetPortfolio(st, dh, readOk) ==
    IF ~readOk THEN <<>>
    ELSE IF st # <<>> THEN
        LET portfolio == JSONParse(st[1]) IN
        IF Malformed(portfolio) THEN <<DefaultCopy(dh)>> ELSE <<portfolio>>
    ELSE <<>>

\* savePortfolio: the new content of the storage key
SavePortfolio(portfolio, st, writeOk) ==
    IF writeOk THEN <<JSONStringify(portfolio)>> ELSE st

\* initializePortfolio: the portfolio returned and the storage it leaves
\* (mutant: the save is made outside the `if`, for a portfolio that was read too)
InitializePortfolioMutant(st, dh, readOk, writeOk) ==
    LET got == GetPortfolio(st, dh, readOk)
        portfolio == IF got = <<>> THEN DefaultCopy(dh) ELSE got[1]
    IN [portfolio |-> portfolio,
        storage   |-> SavePortfolio(portfolio, st, writeOk),
        didWrite  |-> TRUE]

InitializePortfolio(st, dh, readOk, writeOk) ==
    LET got == GetPortfolio(st, dh, readOk) IN
    IF got = <<>>
    THEN [portfolio |-> DefaultCopy(dh),
          storage   |-> SavePortfolio(DefaultCopy(dh), st, writeOk),
          didWrite  |-> TRUE]
    ELSE [portfolio |-> got[1], storage |-> st, didWrite |-> FALSE]

----------------------------------------------------------------------------
(* buyStock / sellStock, the synchronous parts *)

\* holdings.findIndex(h => h.symbol === symbol); 0 stands for -1
\* (mutant: the predicate ignores the symbol)
FindIndexMutant(holdings, symbol) ==
    IF Len(holdings) > 0 THEN 1 ELSE 0

\* (mutant: the search never finds the symbol)
FindIndexNever(holdings, symbol) == 0

FindIndex(holdings, symbol) ==
    IF \E i \in 1 .. Len(holdings) : holdings[i].symbol = symbol
    THEN CHOOSE i \in 1 .. Len(holdings) :
            /\ holdings[i].symbol = symbol
            /\ \A j \in 1 .. (i - 1) : holdings[j].symbol # symbol
    ELSE 0

\* the guard `quantity <= 0 || price <= 0`
\* (mutant: the price is not checked)
InvalidArgsMutant(quantity, price) == quantity <= 0

InvalidArgs(quantity, price) == quantity <= 0 \/ price <= 0

\* the guard `portfolio.cash < totalCost`
\* (mutant: the check is missing)
InsufficientCashMutant(portfolio, totalCost) == FALSE

\* (mutant: the comparison is inverted)
InsufficientCashInverted(portfolio, totalCost) == portfolio.cash > totalCost

InsufficientCash(portfolio, totalCost) == portfolio.cash < totalCost

\* the guard `holding.quantity < quantity`
\* (mutant: the check is missing)
InsufficientQuantityMutant(holding, quantity) == FALSE

InsufficientQuantity(holding, quantity) == holding.quantity < quantity

\* newTotalCost / newTotalQuantity
\* (mutant: the old basis enters unweighted, purchasePrice + totalCost)
NewPurchasePriceMutant(existingHolding, quantity, totalCost) ==
    Norm(existingHolding.purchasePrice[1] + totalCost * existingHolding.purchasePrice[2],
         existingHolding.purchasePrice[2] * (existingHolding.quantity + quantity))

NewPurchasePrice(existingHolding, quantity, totalCost) ==
    LET newTotalQuantity == existingHolding.quantity + quantity
        \* existingHolding.quantity * existingHolding.purchasePrice + totalCost,
        \* over the denominator of purchasePrice
        newTotalCostNum == existingHolding.quantity * existingHolding.purchasePrice[1]
                             + totalCost * existingHolding.purchasePrice[2]
    IN Norm(newTotalCostNum, existingHolding.purchasePrice[2] * newTotalQuantity)

\* lines 218-238: the portfolio after the mutation of a buy that passed the checks
\* (mutant: a buy into an existing holding takes the description of the call)
BuyApplyRenaming(portfolio, symbol, description, quantity, price) ==
    LET totalCost == quantity * price
        existingHoldingIndex == FindIndex(portfolio.holdings, symbol)
    IN IF existingHoldingIndex > 0
       THEN LET existingHolding == portfolio.holdings[existingHoldingIndex] IN
            [portfolio EXCEPT
                !.cash = @ - totalCost,
                !.holdings[existingHoldingIndex] =
                    [existingHolding EXCEPT
                        !.description = description,
                        !.purchasePrice = NewPurchasePrice(existingHolding, quantity, totalCost),
                        !.quantity = existingHolding.quantity + quantity]]
       ELSE [portfolio EXCEPT
                !.cash = @ - totalCost,
                !.holdings = Append(@, [symbol |-> symbol, description |-> description,
                                        quantity |-> quantity, purchasePrice |-> Num(price)])]

BuyApply(portfolio, symbol, description, quantity, price) ==
    LET totalCost == quantity * price
        existingHoldingIndex == FindIndex(portfolio.holdings, symbol)
    IN IF existingHoldingIndex > 0
       THEN LET existingHolding == portfolio.holdings[existingHoldingIndex] IN
            [portfolio EXCEPT
                !.cash = @ - totalCost,
                !.holdings[existingHoldingIndex] =
                    [existingHolding EXCEPT
                        !.purchasePrice = NewPurchasePrice(existingHolding, quantity, totalCost),
                        !.quantity = existingHolding.quantity + quantity]]
       ELSE [portfolio EXCEPT
                !.cash = @ - totalCost,
                !.holdings = Append(@, [symbol |-> symbol, description |-> description,
                                        quantity |-> quantity, purchasePrice |-> Num(price)])]

\* holdings.splice(holdingIndex, 1)
Splice(holdings, holdingIndex) ==
    SubSeq(holdings, 1, holdingIndex - 1) \o SubSeq(holdings, holdingIndex + 1, Len(holdings))

\* lines 271-282: the portfolio after the mutation of a sell that passed the checks
\* (mutant: the holding is never removed)
SellApplyMutant(portfolio, holdingIndex, quantity, price) ==
    [portfolio EXCEPT !.cash = @ + quantity * price,
                      !.holdings[holdingIndex].quantity = @ - quantity]

\* (mutant: a partial sale rebases the holding on the sale price)
SellApplyRebased(portfolio, holdingIndex, quantity, price) ==
    IF portfolio.holdings[holdingIndex].quantity = quantity
    THEN [portfolio EXCEPT !.cash = @ + quantity * price,
                           !.holdings = Splice(@, holdingIndex)]
    ELSE [portfolio EXCEPT !.cash = @ + quantity * price,
                           !.holdings[holdingIndex].quantity = @ - quantity,
                           !.holdings[holdingIndex].purchasePrice = Num(price)]

\* (mutant: the proceeds of the sale are not credited)
SellApplyUnpaid(portfolio, holdingIndex, quantity, price) ==
    IF portfolio.holdings[holdingIndex].quantity = quantity
    THEN [portfolio EXCEPT !.holdings = Splice(@, holdingIndex)]
    ELSE [portfolio EXCEPT !.holdings[holdingIndex].quantity = @ - quantity]

SellApply(portfolio, holdingIndex, quantity, price) ==
    LET totalSaleValue == quantity * price
        holding == portfolio.holdings[holdingIndex]
    IN IF holding.quantity = quantity
       THEN [portfolio EXCEPT !.cash = @ + totalSaleValue,
                              !.holdings = Splice(@, holdingIndex)]
       ELSE [portfolio EXCEPT !.cash = @ + totalSaleValue,
                              !.holdings[holdingIndex].quantity = @ - quantity]

----------------------------------------------------------------------------
(* The calls.  Each action is one whole call, run to completion.  The      *)
(* flags say whether the AsyncStorage operation the call awaits succeeds:  *)
(* readOk for getItem, initWriteOk for the setItem made inside             *)
(* initializePortfolio, writeOk for the setItem of the final save,         *)
(* removeOk for removeItem.                                                *)

NoCall ==
    [op |-> "none", symbol |-> "", description |-> "", quantity |-> 0, price |-> 0,
     ok |-> FALSE, didRead |-> FALSE, readFailed |-> FALSE,
     didWrite |-> FALSE, writeFailed |-> FALSE, failed |-> 0,
     pre |-> <<>>, preStorage |-> <<>>, preDefault |-> <<>>, preMem |-> <<>>,
     prev |-> "none", plain |-> TRUE, net |-> 0]

\* the history record of a call, from the state it started in
Call(op, symbol, description, quantity, price) ==
    [NoCall EXCEPT !.op = op, !.symbol = symbol, !.description = description,
                   !.quantity = quantity, !.price = price,
                   !.preStorage = storage, !.preDefault = defaultHoldings,
                   !.preMem = mem, !.prev = last.op,
                   !.plain = last.plain, !.net = last.net]

Count(b) == IF b THEN 1 ELSE 0

\* the part of the record initializePortfolio accounts for
Loaded(call, init, readOk, writeOk) ==
    [call EXCEPT !.didRead = TRUE, !.readFailed = ~readOk,
                 !.didWrite = init.didWrite,
                 !.writeFailed = init.didWrite /\ ~writeOk,
                 !.failed = Count(~readOk) + Count(init.didWrite /\ ~writeOk),
                 !.pre = <<init.portfolio>>]

\* The tally of a run: plain while the run has had no clearPortfolio and no
\* failed storage operation, and, while plain, net is the sum of
\* quantity * price over the buys that returned true less that sum over the
\* sells that returned true.
Tally(call) ==
    IF call.plain /\ call.op # "clear" /\ call.failed = 0
    THEN [call EXCEPT !.net = @ + (IF ~call.ok THEN 0
                                   ELSE IF call.op = "buy" THEN call.quantity * call.price
                                   ELSE IF call.op = "sell" THEN - call.quantity * call.price
                                   ELSE 0)]
    ELSE [call EXCEPT !.plain = FALSE, !.net = 0]

\* a call may meet the failures its flags ask for only within the budget
Budget(flags) ==
    nfail + Cardinality({i \in DOMAIN flags : ~flags[i]}) <= MaxFailures

\* bookkeeping common to every call
Completed ==
    /\ nops' = nops + 1
    /\ nfail' = nfail + last'.failed
    /\ UNCHANGED <<calls, clock, screen>>

\* StockDetailScreen where it is not mounted
NoScreen == [mounted |-> FALSE]

\* a caller with no call in progress
IdleCall ==
    [pc |-> "idle", op |-> "none", symbol |-> "", description |-> "",
     quantity |-> 0, price |-> 0,
     portfolio |-> <<>>, blob |-> <<>>,
     read |-> <<>>, readAt |-> 0, readFailed |-> FALSE,
     wrote |-> FALSE, wroteAt |-> 0, writeFailed |-> FALSE,
     ok |-> FALSE, outcome |-> "none", failedBefore |-> 0]

Init ==
    /\ nfail = 0
    /\ storage = <<>>
    /\ defaultHoldings = <<>>
    /\ mem = <<>>
    /\ last = NoCall
    /\ nops = 0
    /\ calls = [c \in Callers |-> IdleCall]
    /\ clock = 0
    /\ screen = NoScreen

\* initializePortfolio(), lines 172-182
Initialize(readOk, writeOk) ==
    /\ nops < MaxOps
    /\ Budget(<<readOk, writeOk>>)
    /\ LET init == InitializePortfolio(storage, defaultHoldings, readOk, writeOk) IN
       /\ storage' = init.storage
       /\ mem' = <<init.portfolio>>
       /\ last' = Tally([Loaded(Call("initialize", "", "", 0, 0), init, readOk, writeOk)
                            EXCEPT !.ok = TRUE])
    /\ UNCHANGED defaultHoldings
    /\ Completed

\* clearPortfolio(), lines 187-194
Clear(removeOk) ==
    /\ nops < MaxOps
    /\ Budget(<<removeOk>>)
    /\ storage' = IF removeOk THEN <<>> ELSE storage
    /\ last' = Tally([Call("clear", "", "", 0, 0) EXCEPT
                         !.ok = TRUE, !.didWrite = TRUE, !.writeFailed = ~removeOk,
                         !.failed = Count(~removeOk)])
    /\ UNCHANGED <<defaultHoldings, mem>>
    /\ Completed

\* buyStock(symbol, description, quantity, price), lines 204-242
Buy(symbol, description, quantity, price, readOk, initWriteOk, writeOk) ==
    /\ nops < MaxOps
    /\ Budget(<<readOk, initWriteOk, writeOk>>)
    /\ LET call == Call("buy", symbol, description, quantity, price) IN
       IF InvalidArgs(quantity, price)
       THEN /\ last' = Tally(call)
            /\ UNCHANGED <<storage, defaultHoldings, mem>>
       ELSE LET init == InitializePortfolio(storage, defaultHoldings, readOk, initWriteOk)
                portfolio == init.portfolio
                totalCost == quantity * price
                loaded == Loaded(call, init, readOk, initWriteOk)
            IN IF InsufficientCash(portfolio, totalCost)
               THEN /\ storage' = init.storage
                    /\ mem' = <<portfolio>>
                    /\ last' = Tally(loaded)
                    /\ UNCHANGED defaultHoldings
               ELSE LET bought == BuyApply(portfolio, symbol, description, quantity, price) IN
                    /\ storage' = SavePortfolio(bought, init.storage, writeOk)
                    /\ defaultHoldings' =
                          IF bought.aliased THEN bought.holdings ELSE defaultHoldings
                    /\ mem' = <<bought>>
                    /\ last' = Tally([loaded EXCEPT
                                         !.ok = TRUE, !.didWrite = TRUE,
                                         !.writeFailed = @ \/ ~writeOk,
                                         !.failed = @ + Count(~writeOk)])
    /\ Completed

\* sellStock(symbol, quantity, price), lines 251-286
Sell(symbol, quantity, price, readOk, initWriteOk, writeOk) ==
    /\ nops < MaxOps
    /\ Budget(<<readOk, initWriteOk, writeOk>>)
    /\ LET call == Call("sell", symbol, "", quantity, price) IN
       IF InvalidArgs(quantity, price)
       THEN /\ last' = Tally(call)
            /\ UNCHANGED <<storage, defaultHoldings, mem>>
       ELSE LET init == InitializePortfolio(storage, defaultHoldings, readOk, initWriteOk)
                portfolio == init.portfolio
                holdingIndex == FindIndex(portfolio.holdings, symbol)
                loaded == Loaded(call, init, readOk, initWriteOk)
            IN IF \/ holdingIndex = 0
                  \/ InsufficientQuantity(portfolio.holdings[holdingIndex], quantity)
               THEN /\ storage' = init.storage
                    /\ mem' = <<portfolio>>
                    /\ last' = Tally(loaded)
                    /\ UNCHANGED defaultHoldings
               ELSE LET sold == SellApply(portfolio, holdingIndex, quantity, price) IN
                    /\ storage' = SavePortfolio(sold, init.storage, writeOk)
                    /\ defaultHoldings' =
                          IF sold.aliased THEN sold.holdings ELSE defaultHoldings
                    /\ mem' = <<sold>>
                    /\ last' = Tally([loaded EXCEPT
                                         !.ok = TRUE, !.didWrite = TRUE,
                                         !.writeFailed = @ \/ ~writeOk,
                                         !.failed = @ + Count(~writeOk)])
    /\ Completed

\* Calls issued one at a time; every AsyncStorage operation succeeds.
Next ==
    \/ Initialize(TRUE, TRUE)
    \/ Clear(TRUE)
    \/ \E symbol \in Symbols, description \in Descriptions, order \in Orders :
          Buy(symbol, description, order[1], order[2], TRUE, TRUE, TRUE)
    \/ \E symbol \in Symbols, order \in Orders :
          Sell(symbol, order[1], order[2], TRUE, TRUE, TRUE)

Spec == Init /\ [][Next]_vars

\* The same calls in the runs where storage operations may fail.
InitializeF(readOk, writeOk) ==
    nops < MaxOpsF /\ Initialize(readOk, writeOk)

ClearF(removeOk) ==
    nops < MaxOpsF /\ Clear(removeOk)

BuyF(symbol, description, quantity, price, readOk, initWriteOk, writeOk) ==
    nops < MaxOpsF /\ Buy(symbol, description, quantity, price, readOk, initWriteOk, writeOk)

SellF(symbol, quantity, price, readOk, initWriteOk, writeOk) ==
    nops < MaxOpsF /\ Sell(symbol, quantity, price, readOk, initWriteOk, writeOk)

\* a call with a non-positive argument returns before any storage operation:
\* one such order stands for them all in these runs
OrdersF == ValidOrders \cup {<<0, 25000>>}

\* Calls issued one at a time; each AsyncStorage operation may fail.
NextF ==
    \/ \E readOk, writeOk \in BOOLEAN : InitializeF(readOk, writeOk)
    \/ \E removeOk \in BOOLEAN : ClearF(removeOk)
    \/ \E symbol \in Symbols, description \in Descriptions, order \in OrdersF,
          readOk, initWriteOk, writeOk \in BOOLEAN :
          BuyF(symbol, description, order[1], order[2], readOk, initWriteOk, writeOk)
    \/ \E symbol \in Symbols, order \in OrdersF,
          readOk, initWriteOk, writeOk \in BOOLEAN :
          SellF(symbol, order[1], order[2], readOk, initWriteOk, writeOk)

SpecF == Init /\ [][NextF]_vars

\* blobs that parse but lack the cash field, the holdings field or both, as
\* another version of the app or another writer of the key may have left
MalformedBlobs ==
    {[cash |-> 50000],
     [holdings |-> <<[symbol |-> "AAPL", description |-> "APPLE INC",
                      quantity |-> 1, purchasePrice |-> <<25000, 1>>]>>],
     [version |-> 1]}

\* The app starts on a key that holds such a blob.
InitM ==
    /\ nfail = 0
    /\ storage \in {<<blob>> : blob \in MalformedBlobs}
    /\ defaultHoldings = <<>>
    /\ mem = <<>>
    /\ last = NoCall
    /\ nops = 0
    /\ calls = [c \in Callers |-> IdleCall]
    /\ clock = 0
    /\ screen = NoScreen

\* Calls issued one at a time on that key; every AsyncStorage operation succeeds.
NextM ==
    \/ InitializeF(TRUE, TRUE)
    \/ ClearF(TRUE)
    \/ \E symbol \in Symbols, description \in Descriptions, order \in OrdersF :
          BuyF(symbol, description, order[1], order[2], TRUE, TRUE, TRUE)
    \/ \E symbol \in Symbols, order \in OrdersF :
          SellF(symbol, order[1], order[2], TRUE, TRUE, TRUE)

SpecM == InitM /\ [][NextM]_vars

\* Ledgers of the Portfolio type for savePortfolio and getPortfolio taken
\* alone: any of these cash values, and up to two positions whose basis is a
\* whole number, a fraction, NaN (0/0) or Infinity (1/0).
BasisValues == {<<25000, 1>>, <<100000, 3>>, <<0, 0>>, <<1, 0>>}

PositionValues ==
    [symbol : Symbols, description : Descriptions,
     quantity : 1 .. MaxQty, purchasePrice : BasisValues]

LedgerValues ==
    [cash : {0, 12500, INITIAL_CASH},
     holdings : {<<>>} \cup {<<h>> : h \in PositionValues}
                  \cup {<<h, g>> : h \in PositionValues,
                                   g \in {x \in PositionValues : x.symbol = "MSFT"}},
     aliased : {FALSE}]

\* A caller holds such a ledger; the key is empty.
InitR ==
    /\ nfail = 0
    /\ storage = <<>>
    /\ defaultHoldings = <<>>
    /\ mem \in {<<portfolio>> : portfolio \in LedgerValues}
    /\ last = NoCall
    /\ nops = 0
    /\ calls = [c \in Callers |-> IdleCall]
    /\ clock = 0
    /\ screen = NoScreen

\* savePortfolio(portfolio), lines 156-164, of the ledger held
SaveR(writeOk) ==
    /\ last.op = "none"
    /\ storage' = SavePortfolio(mem[1], storage, writeOk)
    /\ last' = [Call("save", "", "", 0, 0) EXCEPT
                   !.ok = TRUE, !.didWrite = TRUE, !.writeFailed = ~writeOk,
                   !.failed = Count(~writeOk), !.pre = mem]
    /\ UNCHANGED <<defaultHoldings, mem>>
    /\ Completed

\* getPortfolio(), lines 133-149, after it
LoadR(readOk) ==
    /\ last.op = "save"
    /\ mem' = GetPortfolio(storage, defaultHoldings, readOk)
    /\ last' = [last EXCEPT !.op = "load", !.prev = "save",
                            !.didRead = TRUE, !.readFailed = ~readOk,
                            !.failed = Count(~readOk)]
    /\ UNCHANGED <<storage, defaultHoldings>>
    /\ Completed

NextR ==
    \/ \E writeOk \in BOOLEAN : SaveR(writeOk)
    \/ \E readOk \in BOOLEAN : LoadR(readOk)

SpecR == InitR /\ [][NextR]_vars

\* The calls issued one at a time, every AsyncStorage operation succeeding,
\* where the screens may pass different descriptions for one symbol.
DescriptionsD == {"APPLE INC", "Apple Inc."}

OrdersD == {<<1, 25000>>, <<MaxQty, 50000>>, <<0, 25000>>}

NextD ==
    \/ Initialize(TRUE, TRUE)
    \/ Clear(TRUE)
    \/ \E symbol \in Symbols, description \in DescriptionsD, order \in OrdersD :
          Buy(symbol, description, order[1], order[2], TRUE, TRUE, TRUE)
    \/ \E symbol \in Symbols, order \in OrdersD :
          Sell(symbol, order[1], order[2], TRUE, TRUE, TRUE)

SpecD == Init /\ [][NextD]_vars

----------------------------------------------------------------------------
(* The same calls, step by step.  A call runs without interruption from    *)
(* one `await` of an AsyncStorage operation to the next; between them the  *)
(* calls of other callers may run.  pc names the point a call waits at:    *)
(*   getItem      getPortfolio awaits AsyncStorage.getItem (line 135)      *)
(*   create       getPortfolio has returned null to initializePortfolio    *)
(*   initSetItem  the save of initializePortfolio awaits setItem (line 159)*)
(*   initialized  initializePortfolio is about to return to its caller     *)
(*   setItem      the final save of buyStock/sellStock awaits setItem      *)
(*   removeItem   clearPortfolio awaits removeItem (line 189)              *)
(*   done         the call has returned                                    *)
(* A portfolio object whose holdings array is defaultPortfolio.holdings    *)
(* (aliased) sees that array as it is when the object is used.             *)

Deref(portfolio) ==
    IF portfolio.aliased
    THEN [portfolio EXCEPT !.holdings = defaultHoldings]
    ELSE portfolio

\* a caller starts a call: the code up to the first await
StartCall(c, op, symbol, description, quantity, price) ==
    /\ nops < MaxCalls
    /\ calls[c].pc \in {"idle", "done"}
    /\ LET invalid == op \in {"buy", "sell"} /\ InvalidArgs(quantity, price) IN
       calls' = [calls EXCEPT ![c] =
                    [IdleCall EXCEPT
                        !.op = op, !.symbol = symbol, !.description = description,
                        !.quantity = quantity, !.price = price,
                        !.failedBefore = nfail,
                        !.outcome = IF invalid THEN "invalid" ELSE "pending",
                        !.pc = IF op = "clear" THEN "removeItem"
                               ELSE IF invalid THEN "done"
                               ELSE "getItem"]]
    /\ nops' = nops + 1
    /\ UNCHANGED <<storage, defaultHoldings, mem, last, nfail, clock>>

\* getItem settles and getPortfolio returns (lines 135-148)
\* (mutant: no try/catch around the read, whose error then is thrown through
\* the call instead of being answered with null)
GetItemThrows(c, readOk) ==
    /\ calls[c].pc = "getItem"
    /\ Budget(<<readOk>>)
    /\ LET got == GetPortfolio(storage, defaultHoldings, readOk) IN
       calls' = [calls EXCEPT ![c] =
                    [@ EXCEPT !.read = IF readOk THEN storage ELSE <<>>,
                              !.readAt = clock,
                              !.readFailed = ~readOk,
                              !.portfolio = got,
                              !.pc = IF ~readOk THEN "thrown"
                                     ELSE IF got = <<>> THEN "create"
                                     ELSE "initialized"]]
    /\ nfail' = nfail + Count(~readOk)
    /\ UNCHANGED <<storage, defaultHoldings, mem, last, nops, clock, screen>>

GetItem(c, readOk) ==
    /\ calls[c].pc = "getItem"
    /\ Budget(<<readOk>>)
    /\ LET got == GetPortfolio(storage, defaultHoldings, readOk) IN
       calls' = [calls EXCEPT ![c] =
                    [@ EXCEPT !.read = IF readOk THEN storage ELSE <<>>,
                              !.readAt = clock,
                              !.readFailed = ~readOk,
                              !.portfolio = got,
                              !.pc = IF got = <<>> THEN "create" ELSE "initialized"]]
    /\ nfail' = nfail + Count(~readOk)
    /\ UNCHANGED <<storage, defaultHoldings, mem, last, nops, clock, screen>>

\* initializePortfolio builds the default and starts its save (lines 175-178)
CreateDefault(c) ==
    /\ calls[c].pc = "create"
    /\ calls' = [calls EXCEPT ![c] =
                    [@ EXCEPT !.portfolio = <<DefaultCopy(defaultHoldings)>>,
                              !.blob = <<JSONStringify(DefaultCopy(defaultHoldings))>>,
                              !.pc = "initSetItem"]]
    /\ UNCHANGED <<storage, defaultHoldings, mem, last, nops, nfail, clock, screen>>

\* the setItem of a save settles (lines 159, 161-163)
Written(blob, writeOk) ==
    /\ storage' = IF writeOk THEN blob ELSE storage
    /\ clock' = clock + Count(writeOk)
    /\ nfail' = nfail + Count(~writeOk)

InitSetItem(c, writeOk) ==
    /\ calls[c].pc = "initSetItem"
    /\ Budget(<<writeOk>>)
    /\ Written(calls[c].blob, writeOk)
    /\ calls' = [calls EXCEPT ![c] =
                    [@ EXCEPT !.writeFailed = ~writeOk, !.pc = "initialized"]]
    /\ UNCHANGED <<defaultHoldings, mem, last, nops, screen>>

\* the portfolio the body of buyStock/sellStock works on: the object
\* initializePortfolio returned, read or created before the latest await
\* (mutant: the body works on the snapshot as the key holds it now)
WorkingFresh(c) ==
    IF storage # <<>> /\ ~Malformed(storage[1])
    THEN JSONParse(storage[1])
    ELSE Deref(calls[c].portfolio[1])

Working(c) == Deref(calls[c].portfolio[1])

\* initializePortfolio returns to its caller, which runs to its next await
\* or to its return (lines 181, 211-240, 258-284)
Body(c) ==
    /\ calls[c].pc = "initialized"
    /\ LET call == calls[c]
           portfolio == Working(c)
           holdingIndex == FindIndex(portfolio.holdings, call.symbol)
           outcome ==
              CASE call.op = "initialize" -> "returned"
                [] call.op = "buy" ->
                      IF InsufficientCash(portfolio, call.quantity * call.price)
                      THEN "funds" ELSE "pending"
                [] call.op = "sell" ->
                      IF holdingIndex = 0 THEN "notFound"
                      ELSE IF InsufficientQuantity(portfolio.holdings[holdingIndex],
                                                   call.quantity)
                      THEN "shares" ELSE "pending"
           changed ==
              IF call.op = "buy"
              THEN BuyApply(portfolio, call.symbol, call.description,
                            call.quantity, call.price)
              ELSE SellApply(portfolio, holdingIndex, call.quantity, call.price)
       IN IF outcome # "pending"
          THEN /\ calls' = [calls EXCEPT ![c] =
                              [@ EXCEPT !.ok = (call.op = "initialize"),
                                        !.outcome = outcome,
                                        !.pc = "done"]]
               /\ UNCHANGED defaultHoldings
          ELSE /\ calls' = [calls EXCEPT ![c] =
                              [@ EXCEPT !.portfolio = <<changed>>,
                                        !.blob = <<JSONStringify(changed)>>,
                                        !.pc = "setItem"]]
               /\ defaultHoldings' =
                     IF changed.aliased THEN changed.holdings ELSE defaultHoldings
    /\ UNCHANGED <<storage, mem, last, nops, nfail, clock, screen>>

\* the final save settles and buyStock/sellStock return true (lines 240-241,
\* 284-285)
SetItem(c, writeOk) ==
    /\ calls[c].pc = "setItem"
    /\ Budget(<<writeOk>>)
    /\ Written(calls[c].blob, writeOk)
    /\ calls' = [calls EXCEPT ![c] =
                    [@ EXCEPT !.wrote = writeOk, !.wroteAt = clock',
                              !.writeFailed = @ \/ ~writeOk,
                              !.ok = TRUE, !.outcome = "returned",
                              !.pc = "done"]]
    /\ UNCHANGED <<defaultHoldings, mem, last, nops, screen>>

\* removeItem settles and clearPortfolio returns (lines 189-193)
RemoveItem(c, removeOk) ==
    /\ calls[c].pc = "removeItem"
    /\ Budget(<<removeOk>>)
    /\ Written(<<>>, removeOk)
    /\ calls' = [calls EXCEPT ![c] =
                    [@ EXCEPT !.wrote = removeOk, !.wroteAt = clock',
                              !.writeFailed = ~removeOk,
                              !.ok = TRUE, !.outcome = "returned",
                              !.pc = "done"]]
    /\ UNCHANGED <<defaultHoldings, mem, last, nops, screen>>

\* the orders of the overlapping calls
OrdersC == {<<1, 25000>>, <<MaxQty, 50000>>, <<0, 25000>>}

\* a step of a call that loads the portfolio
LoadedStep(c) ==
    \/ \E readOk \in BOOLEAN : GetItem(c, readOk)
    \/ CreateDefault(c)
    \/ \E writeOk \in BOOLEAN : InitSetItem(c, writeOk)
    \/ Body(c)
    \/ \E writeOk \in BOOLEAN : SetItem(c, writeOk)

\* a step of any call of a caller
Step(c) ==
    \/ LoadedStep(c)
    \/ \E removeOk \in BOOLEAN : RemoveItem(c, removeOk)

\* a caller other than the trade screen calls one of the four functions
Starts(c) ==
    \/ StartCall(c, "initialize", "", "", 0, 0) /\ UNCHANGED screen
    \/ StartCall(c, "clear", "", "", 0, 0) /\ UNCHANGED screen
    \/ \E symbol \in Symbols, description \in Descriptions, order \in OrdersC :
          StartCall(c, "buy", symbol, description, order[1], order[2])
             /\ UNCHANGED screen
    \/ \E symbol \in Symbols, order \in OrdersC :
          StartCall(c, "sell", symbol, "", order[1], order[2])
             /\ UNCHANGED screen

\* Calls of several callers, interleaved at their awaits.
NextC ==
    \/ \E c \in Callers : Starts(c)
    \/ \E c \in Callers : Step(c)

\* The app starts (defaultPortfolio as the module creates it, no call in
\* progress) on a key that is empty or holds the snapshot an earlier session
\* has left: the one of a first initialize, or one with a position bought.
InitC ==
    /\ nfail = 0
    /\ storage \in {<<>>,
                    <<[cash |-> INITIAL_CASH, holdings |-> <<>>]>>,
                    <<[cash |-> 50000,
                       holdings |-> <<[symbol |-> "AAPL", description |-> "APPLE INC",
                                       quantity |-> 2, purchasePrice |-> <<25000, 1>>]>>]>>}
    /\ defaultHoldings = <<>>
    /\ mem = <<>>
    /\ last = NoCall
    /\ nops = 0
    /\ calls = [c \in Callers |-> IdleCall]
    /\ clock = 0
    /\ screen = NoScreen

SpecC == InitC /\ [][NextC]_vars

\* One caller, who awaits each call before the next one.  Every
\* AsyncStorage operation settles, with success or with an error, and the
\* continuation of the call that awaits it runs.
NextL == Starts("a") \/ Step("a")

SpecL == InitC /\ [][NextL]_vars /\ WF_vars(Step("a"))

----------------------------------------------------------------------------
(* StockDetailScreen (screens/StockDetailScreen.tsx): the React state of   *)
(* the screen, the quote fetches and handleTransaction calls in flight,    *)
(* and, as history, the alerts shown and the trades started.               *)
(*   market   the current price c the quote service answers with for the   *)
(*            symbol of the screen (0: none known), moving with time       *)
(*   quote    <<>> (null) or <<[c, age]>>; age is 0 until the price moves  *)
(*            or a trade is started after the fetch that set it, 1 since   *)
(* A text is a sequence of characters.                                     *)

TextInputs == {<<"1">>, <<"2">>, <<"0">>, <<>>, <<"2", "x">>}

Digits == <<"0", "1", "2", "3", "4", "5", "6", "7", "8", "9">>

IsDigit(ch) == \E d \in 1 .. 10 : Digits[d] = ch

DigitValue(ch) == (CHOOSE d \in 1 .. 10 : Digits[d] = ch) - 1

\* the value of the longest prefix of digits of text, after the value acc
RECURSIVE ParseDigits(_, _)
ParseDigits(text, acc) ==
    IF text = <<>> \/ ~IsDigit(Head(text)) THEN acc
    ELSE ParseDigits(Tail(text), 10 * acc + DigitValue(Head(text)))

\* parseInt(text, 10) of a text without leading blanks: <<>> stands for NaN
ParseInt(text) ==
    LET negative == text # <<>> /\ Head(text) = "-"
        signed   == text # <<>> /\ Head(text) \in {"-", "+"}
        digits   == IF signed THEN Tail(text) ELSE text
    IN IF digits = <<>> \/ ~IsDigit(Head(digits)) THEN <<>>
       ELSE <<(IF negative THEN -1 ELSE 1) * ParseDigits(digits, 0)>>

\* the messages of the alerts (lines 58, 63, 70, 73)
PriceUnavailableMessage ==
    <<"Cannot perform transaction. Stock price is unavailable.">>
InvalidQuantityMessage ==
    <<"Please enter a valid positive number for quantity.">>
TradeMessage(type, success, quantity, symbol) ==
    IF type = "buy"
    THEN IF success THEN <<"Successfully bought ", quantity, " share(s) of ", symbol, ".">>
         ELSE <<"Purchase failed. Check funds or try again.">>
    ELSE IF success THEN <<"Successfully sold ", quantity, " share(s) of ", symbol, ".">>
         ELSE <<"Sale failed. Check holdings or try again.">>

\* what went wrong in a buy or sell that has returned ("none": nothing)
FailureKind(call) ==
    IF ~call.ok THEN call.outcome
    ELSE IF call.writeFailed \/ call.readFailed THEN "persistence"
    ELSE "none"

\* the screen as it mounts on a symbol: useState defaults (lines 19-24) and the
\* fetch the effect starts (lines 46-48)
MountedScreen(symbol, description, market) ==
    [mounted |-> TRUE, symbol |-> symbol, description |-> description,
     market |-> market,
     quote |-> <<>>, loading |-> TRUE, error |-> FALSE,
     modalVisible |-> FALSE, transactionType |-> "none",
     quantityInput |-> <<"1">>,
     fetches |-> 1,
     trades |-> [c \in Callers |-> [age |-> 0, market |-> 0]],
     alerts |-> {}, events |-> 0]

\* the quote view with its buttons and the modal are rendered (lines 86-94)
Rendered == ~screen.loading /\ ~screen.error /\ screen.quote # <<>>

Aged(quote) ==
    IF quote = <<>> THEN quote
    ELSE <<[quote[1] EXCEPT !.age = 1]>>

\* the price of the symbol moves
MarketMoves(c) ==
    /\ screen.events < MaxEvents
    /\ c # screen.market
    /\ screen' = [screen EXCEPT !.market = c, !.quote = Aged(@),
                                !.events = @ + 1]
    /\ UNCHANGED <<storage, defaultHoldings, mem, last, nops, nfail, calls, clock>>

\* getStockQuote settles and fetchQuote runs to its end (lines 31-43)
FetchSettles(fetchOk) ==
    /\ screen.fetches > 0
    /\ screen' = [screen EXCEPT
                     !.quote = IF fetchOk THEN <<[c |-> screen.market, age |-> 0]>> ELSE @,
                     !.error = IF fetchOk THEN @ ELSE TRUE,
                     !.loading = FALSE,
                     !.fetches = @ - 1]
    /\ UNCHANGED <<storage, defaultHoldings, mem, last, nops, nfail, calls, clock>>

\* openModal(type), lines 50-54; the buttons lie under the modal once it shows
OpenModal(type) ==
    /\ screen.events < MaxEvents
    /\ Rendered /\ ~screen.modalVisible
    /\ screen' = [screen EXCEPT !.transactionType = type,
                                !.quantityInput = <<"1">>,
                                !.modalVisible = TRUE,
                                !.events = @ + 1]
    /\ UNCHANGED <<storage, defaultHoldings, mem, last, nops, nfail, calls, clock>>

\* onChangeText={setQuantityInput}, line 131
ChangeText(text) ==
    /\ screen.events < MaxEvents
    /\ Rendered /\ screen.modalVisible
    /\ text # screen.quantityInput
    /\ screen' = [screen EXCEPT !.quantityInput = text, !.events = @ + 1]
    /\ UNCHANGED <<storage, defaultHoldings, mem, last, nops, nfail, calls, clock>>

\* Cancel and onRequestClose, lines 121, 142
CloseModal ==
    /\ screen.events < MaxEvents
    /\ Rendered /\ screen.modalVisible
    /\ screen' = [screen EXCEPT !.modalVisible = FALSE, !.events = @ + 1]
    /\ UNCHANGED <<storage, defaultHoldings, mem, last, nops, nfail, calls, clock>>

\* a press of Confirm: handleTransaction up to its await (lines 56-72), run by
\* a caller that awaits no other call
\* (mutant: a quantity that is not positive is let through)
ConfirmUnchecked(c) ==
    /\ screen.events < MaxEvents
    /\ Rendered /\ screen.modalVisible
    /\ calls[c].pc = "idle"
    /\ LET quote == screen.quote[1]
           quantity == ParseInt(screen.quantityInput)
       IN IF screen.transactionType = "none" \/ quote.c <= 0
          THEN /\ screen' = [screen EXCEPT
                                !.alerts = @ \cup {[kind |-> "price", title |-> "Error",
                                                    message |-> PriceUnavailableMessage]},
                                !.events = @ + 1]
               /\ UNCHANGED <<calls, nops>>
          ELSE IF quantity = <<>>
          THEN /\ screen' = [screen EXCEPT
                                !.alerts = @ \cup {[kind |-> "quantity",
                                                    title |-> "Invalid Quantity",
                                                    message |-> InvalidQuantityMessage]},
                                !.events = @ + 1]
               /\ UNCHANGED <<calls, nops>>
          ELSE /\ StartCall(c, screen.transactionType, screen.symbol,
                            IF screen.transactionType = "buy"
                            THEN screen.description ELSE "",
                            quantity[1], quote.c)
               /\ screen' = [screen EXCEPT
                                !.trades[c] = [age |-> quote.age,
                                               market |-> screen.market],
                                !.quote = Aged(@),
                                !.events = @ + 1]
    /\ UNCHANGED <<storage, defaultHoldings, mem, last, nfail, clock>>

Confirm(c) ==
    /\ screen.events < MaxEvents
    /\ Rendered /\ screen.modalVisible
    /\ calls[c].pc = "idle"
    /\ LET quote == screen.quote[1]
           quantity == ParseInt(screen.quantityInput)
       IN IF screen.transactionType = "none" \/ quote.c <= 0
          THEN /\ screen' = [screen EXCEPT
                                !.alerts = @ \cup {[kind |-> "price", title |-> "Error",
                                                    message |-> PriceUnavailableMessage]},
                                !.events = @ + 1]
               /\ UNCHANGED <<calls, nops>>
          ELSE IF quantity = <<>> \/ quantity[1] <= 0
          THEN /\ screen' = [screen EXCEPT
                                !.alerts = @ \cup {[kind |-> "quantity",
                                                    title |-> "Invalid Quantity",
                                                    message |-> InvalidQuantityMessage]},
                                !.events = @ + 1]
               /\ UNCHANGED <<calls, nops>>
          ELSE /\ StartCall(c, screen.transactionType, screen.symbol,
                            IF screen.transactionType = "buy"
                            THEN screen.description ELSE "",
                            quantity[1], quote.c)
               /\ screen' = [screen EXCEPT
                                !.trades[c] = [age |-> quote.age,
                                               market |-> screen.market],
                                !.quote = Aged(@),
                                !.events = @ + 1]
    /\ UNCHANGED <<storage, defaultHoldings, mem, last, nfail, clock>>

\* buyStock/sellStock has returned: handleTransaction from its await to its
\* end (lines 69-80)
Finish(c) ==
    /\ calls[c].pc = "done"
    /\ LET call == calls[c]
           success == call.ok
       IN screen' = [screen EXCEPT
                        !.alerts = @ \cup
                            {[kind |-> FailureKind(call),
                              title |-> IF success THEN "Success" ELSE "Failed",
                              message |-> TradeMessage(call.op, success,
                                                       call.quantity, call.symbol)]},
                        !.modalVisible = FALSE,
                        !.loading = IF success THEN TRUE ELSE @,
                        !.error = IF success THEN FALSE ELSE @,
                        !.fetches = IF success THEN @ + 1 ELSE @]
    /\ calls' = [calls EXCEPT ![c] = IdleCall]
    /\ UNCHANGED <<storage, defaultHoldings, mem, last, nops, nfail, clock>>

\* the prices the quote service answers with; 0 for a symbol it has no price of
QuotePrices == Prices \cup {0}

\* The trade screen, its presses and the calls they start; each AsyncStorage
\* operation and each fetch may fail.
NextU ==
    \/ \E c \in QuotePrices : MarketMoves(c)
    \/ \E fetchOk \in BOOLEAN : FetchSettles(fetchOk)
    \/ \E type \in {"buy", "sell"} : OpenModal(type)
    \/ \E text \in TextInputs : ChangeText(text)
    \/ CloseModal
    \/ \E c \in Callers : Confirm(c)
    \/ \E c \in Callers : Finish(c)
    \/ \E c \in Callers : LoadedStep(c)

\* The app has started on a key that is empty or holds a snapshot with a
\* position, and the screen mounts.
InitU ==
    /\ nfail = 0
    /\ storage \in {<<>>,
                    <<[cash |-> 50000,
                       holdings |-> <<[symbol |-> "AAPL", description |-> "APPLE INC",
                                       quantity |-> 2, purchasePrice |-> <<25000, 1>>]>>]>>}
    /\ defaultHoldings = <<>>
    /\ mem = <<>>
    /\ last = NoCall
    /\ nops = 0
    /\ calls = [c \in Callers |-> IdleCall]
    /\ clock = 0
    /\ \E symbol \in Symbols, description \in Descriptions, market \in QuotePrices :
          screen = MountedScreen(symbol, description, market)

SpecU == InitU /\ [][NextU]_vars

----------------------------------------------------------------------------
(* Vocabulary of the properties *)

\* a ledger as a value: cash and the list of positions
Ledger(portfolio) == [cash |-> portfolio.cash, holdings |-> portfolio.holdings]

TheDefault == [cash |-> INITIAL_CASH, holdings |-> <<>>]

\* the current ledger when the latest call started: the persisted snapshot
\* when the call could read one, the default ledger otherwise
Before ==
    IF last.preStorage # <<>> /\ ~last.readFailed
    THEN last.preStorage[1]
    ELSE [cash |-> INITIAL_CASH, holdings |-> last.preDefault]

\* the ledger the latest call left in memory
After == Ledger(mem[1])

\* the indices of the positions of a symbol
Held(holdings, symbol) == {i \in 1 .. Len(holdings) : holdings[i].symbol = symbol}

IsTrade == last.op \in {"buy", "sell"}
PositiveArgs == last.quantity > 0 /\ last.price > 0

\* every list of positions the program holds: in memory and persisted
AllHoldings ==
    {defaultHoldings}
      \cup (IF mem = <<>> THEN {} ELSE {mem[1].holdings})
      \cup (IF storage = <<>> THEN {} ELSE {storage[1].holdings})

\* the call did not touch the persisted snapshot, or (an initialize on a key
\* it could not read) persisted the very ledger it started from
SnapshotKept == storage = last.preStorage \/ storage = <<Before>>

----------------------------------------------------------------------------
(* C1: after every buy and sell call, cash >= 0, in the ledger in memory   *)
(* and in the persisted snapshot.                                          *)
C1_CashNonNegative ==
    /\ mem # <<>> => mem[1].cash >= 0
    /\ storage # <<>> => storage[1].cash >= 0

\* a buy that would have made cash negative was rejected
C1_Witness ==
    /\ last.op = "buy" /\ PositiveArgs /\ ~last.ok
    /\ last.quantity * last.price > Before.cash
    /\ mem[1].cash >= 0 /\ mem[1].cash < INITIAL_CASH

(* C2: every position in memory and in the persisted snapshot has          *)
(* quantity > 0; a position sold down to 0 is removed.                     *)
C2_QuantityPositive ==
    \A holdings \in AllHoldings :
        \A i \in 1 .. Len(holdings) : holdings[i].quantity > 0

\* a sell of all the shares held of a symbol has succeeded
C2_Witness ==
    /\ last.op = "sell" /\ last.ok
    /\ \E i \in Held(Before.holdings, last.symbol) :
          Before.holdings[i].quantity = last.quantity
    /\ Held(mem[1].holdings, last.symbol) = {}
    /\ storage # <<>> /\ Held(storage[1].holdings, last.symbol) = {}

(* C3: after a reset, the next initialize returns the default ledger:      *)
(* cash = 100000 and no positions.                                         *)
C3_ResetThenInitialize ==
    (last.op = "initialize" /\ last.prev = "clear" /\ last.preStorage = <<>>)
        => After = TheDefault

(* C4: initialize on empty storage returns exactly {cash: 100000,          *)
(* positions: []} and, the write succeeding, persists exactly that.        *)
C4_InitializeOnEmpty ==
    (last.op = "initialize" /\ last.preStorage = <<>> /\ ~last.readFailed)
        => /\ After = TheDefault
           /\ ~last.writeFailed => storage = <<TheDefault>>

C8_InvalidArgument ==
    (IsTrade /\ (last.quantity <= 0 \/ last.price <= 0))
        => /\ ~last.ok
           /\ mem = last.preMem
           /\ defaultHoldings = last.preDefault
           /\ storage = last.preStorage
           /\ ~last.didRead /\ ~last.didWrite

\* a trade with a positive quantity and a non-positive price, on a ledger
\* that could have afforded / delivered it
C8_Witness ==
    /\ IsTrade /\ last.quantity > 0 /\ last.price <= 0
    /\ ~last.ok
    /\ last.preStorage # <<>>
    /\ Held(last.preStorage[1].holdings, last.symbol) # {}

\* equality of the rationals a and b
RatEq(a, b) == a[1] * b[2] = b[1] * a[2]

\* each buy into an existing position adds the quantity and sets averageCost to
\* (oldQuantity*oldAverageCost + quantity*price) / (oldQuantity + quantity)
C9_BuyIntoExisting ==
    (last.op = "buy" /\ last.ok /\ Held(Before.holdings, last.symbol) # {})
        => /\ Len(mem[1].holdings) = Len(Before.holdings)
           /\ Cardinality(Held(mem[1].holdings, last.symbol)) = 1
           /\ \A i \in Held(Before.holdings, last.symbol) :
                LET old == Before.holdings[i]
                    new == mem[1].holdings[i]
                IN /\ new.symbol = last.symbol
                   /\ new.quantity = old.quantity + last.quantity
                   /\ new.purchasePrice[2] > 0
                   /\ RatEq(new.purchasePrice,
                            <<old.quantity * old.purchasePrice[1]
                                  + last.quantity * last.price * old.purchasePrice[2],
                              old.purchasePrice[2] * (old.quantity + last.quantity)>>)

\* a successful buy of q1 at p1 that created the position, directly followed
\* by a successful buy of q2 at p2 of the same symbol
C9_TwoBuys ==
    (/\ last.op = "buy" /\ last.ok /\ Held(Before.holdings, last.symbol) = {}
     /\ nops' = nops + 1
     /\ last'.op = "buy" /\ last'.ok /\ last'.symbol = last.symbol)
        => \E i \in 1 .. Len(mem'[1].holdings) :
              /\ Held(mem'[1].holdings, last.symbol) = {i}
              /\ mem'[1].holdings[i].quantity = last.quantity + last'.quantity
              /\ RatEq(mem'[1].holdings[i].purchasePrice,
                       <<last.quantity * last.price + last'.quantity * last'.price,
                         last.quantity + last'.quantity>>)

(* C9: buying q1 at p1 and then q2 more of the same symbol at p2 yields    *)
(* one position with quantity q1+q2 and averageCost (q1*p1+q2*p2)/(q1+q2); *)
(* each buy into an existing position sets averageCost to the weighted     *)
(* mean of the old basis and the purchase.                                 *)
C9_WeightedAverage == [][C9_BuyIntoExisting' /\ C9_TwoBuys]_vars

\* two buys in a row of different quantities at different prices, leaving a
\* basis that is not a whole number
C9_Witness ==
    /\ last.op = "buy" /\ last.ok /\ last.prev = "buy"
    /\ \E i \in Held(Before.holdings, last.symbol) :
          /\ Before.holdings[i].quantity # last.quantity
          /\ Before.holdings[i].purchasePrice # Num(last.price)
          /\ mem[1].holdings[i].quantity = Before.holdings[i].quantity + last.quantity
          /\ mem[1].holdings[i].purchasePrice[2] # 1

(* C10: a successful sell of exactly the held quantity removes the         *)
(* position; a successful sell of fewer shares reduces quantity by the     *)
(* sold amount and leaves averageCost unchanged.                           *)
C10_SellEffect ==
    (last.op = "sell" /\ last.ok)
        => \E i \in Held(Before.holdings, last.symbol) :
              LET old == Before.holdings[i] IN
              IF old.quantity = last.quantity
              THEN /\ Held(mem[1].holdings, last.symbol) = {}
                   /\ Len(mem[1].holdings) = Len(Before.holdings) - 1
              ELSE /\ Len(mem[1].holdings) = Len(Before.holdings)
                   /\ mem[1].holdings[i].symbol = last.symbol
                   /\ mem[1].holdings[i].quantity = old.quantity - last.quantity
                   /\ mem[1].holdings[i].purchasePrice = old.purchasePrice

\* a partial sale of a position whose basis is not a whole number, at a price
\* other than the basis
C10_Witness ==
    /\ last.op = "sell" /\ last.ok
    /\ \E i \in Held(mem[1].holdings, last.symbol) :
          /\ mem[1].holdings[i].quantity > 0
          /\ mem[1].holdings[i].purchasePrice[2] # 1

(* C11: a buy or sell returns success only if persisting the mutated       *)
(* ledger succeeded: whenever a storage write made by the call fails, the  *)
(* call reports failure.                                                   *)
C11_SuccessOnlyIfPersisted ==
    (IsTrade /\ last.writeFailed) => ~last.ok

(* C12: after every completed initialize, buy or sell that obtained a      *)
(* ledger, the persisted snapshot equals the ledger in memory the call     *)
(* produced.                                                               *)
C12_SnapshotEqualsMemory ==
    (last.op \in {"initialize", "buy", "sell"} /\ last.didRead)
        => /\ mem # <<>>
           /\ storage = <<After>>

C17_ReadFailureSurfaced ==
    (last.op \in {"initialize", "buy", "sell"} /\ last.readFailed)
        => /\ ~last.ok
           /\ storage = last.preStorage

\* a buy or sell that read a snapshot, saved and returned true
Traded(call) ==
    /\ call.pc = "done" /\ call.op \in {"buy", "sell"}
    /\ call.ok /\ call.wrote /\ ~call.readFailed /\ call.read # <<>>

\* first saved between the read and the save of second, the latest write
Overlapped(first, second) ==
    /\ Traded(first) /\ Traded(second)
    /\ second.readAt < first.wroteAt
    /\ first.wroteAt < second.wroteAt
    /\ second.wroteAt = clock

\* the trade of a call applied to the snapshot the call had read
AloneOn(call) ==
    LET portfolio == JSONParse(call.read[1]) IN
    JSONStringify(
        IF call.op = "buy"
        THEN BuyApply(portfolio, call.symbol, call.description,
                      call.quantity, call.price)
        ELSE SellApply(portfolio, FindIndex(portfolio.holdings, call.symbol),
                       call.quantity, call.price))

(* C14: two buy/sell calls whose load, validate, mutate, save sequences   *)
(* interleave can lose an update.  Whenever two calls that both returned   *)
(* success overlapped so (the later saver had read the snapshot before the *)
(* earlier saver's write), and no write followed, the persisted snapshot   *)
(* is the later saver's trade applied to the snapshot it had read: the     *)
(* other call's trade is not in it.                                        *)
C14_LostUpdate ==
    \A c, d \in Callers :
        Overlapped(calls[c], calls[d])
            => /\ storage = <<AloneOn(calls[d])>>
               /\ calls[c].quantity * calls[c].price # 0

\* two buys of different symbols read the same snapshot, both returned true,
\* and the snapshot holds one position more than the one they read, paid
\* for once
C14_Witness ==
    \E c, d \in Callers :
        /\ Overlapped(calls[c], calls[d])
        /\ calls[c].op = "buy" /\ calls[d].op = "buy"
        /\ calls[c].symbol # calls[d].symbol
        /\ calls[c].read = calls[d].read
        /\ Len(storage[1].holdings) = Len(calls[d].read[1].holdings) + 1
        /\ storage[1].cash = calls[d].read[1].cash
                                - calls[d].quantity * calls[d].price

\* the callers whose buy or sell has not returned yet
InFlight == {c \in Callers : calls[c].pc \notin {"idle", "done"}}

(* C15: the trade screen issues buys and sells one at a time: from a       *)
(* confirm press that starts one until that call has returned no second    *)
(* one starts, so at most one buy/sell is in flight at any time.           *)
C15_OneTradeInFlight == Cardinality(InFlight) <= 1

C20_EveryCallReturns ==
    [](calls["a"].pc \notin {"idle", "done"} => <>(calls["a"].pc = "done"))

\* a buy or sell started after a storage operation of an earlier call had
\* failed has returned
C20_Witness ==
    /\ calls["a"].pc = "done"
    /\ calls["a"].failedBefore > 0
    /\ calls["a"].op \in {"buy", "sell"} /\ calls["a"].ok

(* C18: the price the trade screen passes to buy/sell is the current price *)
(* of a quote fetched immediately before the call: no trade was started    *)
(* and the price has not moved since that fetch.                           *)
C18_FreshQuote ==
    \A c \in Callers :
        calls[c].pc # "idle"
            => /\ screen.trades[c].age = 0
               /\ calls[c].price = screen.trades[c].market

(* C19: every kind of failure of a trade (invalid argument, insufficient   *)
(* funds, insufficient shares, position not found, persistence failure,    *)
(* price unavailable) is reported to the user, with a message that no      *)
(* other kind of failure is reported with.                                 *)
C19_DistinctMessages ==
    \A x, y \in screen.alerts :
        (x.kind # "none" /\ y.kind # "none")
            => /\ x.title # "Success"
               /\ x.kind # y.kind => x.message # y.message

(* C21: in every ledger reached by initialize, buy, sell and reset calls   *)
(* issued one at a time, in memory or persisted, each symbol appears in at *)
(* most one position.                                                      *)
C21_SymbolOnce ==
    \A holdings \in AllHoldings :
        \A i, j \in 1 .. Len(holdings) :
            holdings[i].symbol = holdings[j].symbol => i = j

\* a second buy of a symbol has succeeded on a ledger that holds two positions
C21_Witness ==
    /\ last.op = "buy" /\ last.ok
    /\ Held(Before.holdings, last.symbol) # {}
    /\ Len(mem[1].holdings) = 2
    /\ storage # <<>> /\ Len(storage[1].holdings) = 2

\* every number of the ledger is finite
FiniteLedger(portfolio) ==
    \A i \in 1 .. Len(portfolio.holdings) : portfolio.holdings[i].purchasePrice[2] # 0

C23_SnapshotNotOverwritten ==
    (/\ last.op = "initialize" \/ (IsTrade /\ ~last.ok)
     /\ last.preStorage # <<>>)
        => storage = last.preStorage

\* cash >= 0, every quantity > 0 and no symbol twice
ValidSnapshot(blob) ==
    /\ blob.cash >= 0
    /\ \A i \in 1 .. Len(blob.holdings) : blob.holdings[i].quantity > 0
    /\ \A i, j \in 1 .. Len(blob.holdings) :
          blob.holdings[i].symbol = blob.holdings[j].symbol => i = j

(* C24: under every interleaving of concurrent initialize, buy and sell    *)
(* calls at their storage reads and writes, every snapshot written to the  *)
(* key, or handed to a write that has not settled yet, has cash >= 0,      *)
(* every quantity > 0 and no symbol twice, the snapshot the key started    *)
(* with having them.                                                       *)
C24_WrittenSnapshotsValid ==
    /\ storage # <<>> => ValidSnapshot(storage[1])
    /\ \A c \in Callers : calls[c].blob # <<>> => ValidSnapshot(calls[c].blob[1])

\* a sell and a buy that had read the same snapshot have both saved, the
\* buy last
C24_Witness ==
    \E c, d \in Callers :
        /\ Overlapped(calls[c], calls[d])
        /\ calls[c].op = "sell" /\ calls[d].op = "buy"
        /\ calls[c].read = calls[d].read
        /\ Len(storage[1].holdings) = 2

(* C25: in a run of calls issued one at a time from empty storage, with no *)
(* storage failure and no reset, the cash after each buy or sell, in the   *)
(* ledger the call worked on and in the snapshot, is 100000 less the sum   *)
(* of quantity * price over the buys that returned true plus that sum over *)
(* the sells that returned true; the calls that returned false count for   *)
(* nothing, and while nothing is stored nothing has been traded.           *)
C25_CashConserved ==
    (IsTrade /\ last.plain) =>
        /\ storage # <<>> => storage[1].cash = INITIAL_CASH - last.net
        /\ (last.didRead /\ mem # <<>>) => mem[1].cash = INITIAL_CASH - last.net
        /\ storage = <<>> => last.net = 0

\* a sell that returned false, after a buy and a sell that returned true,
\* with cash that is not the initial cash
C25_Witness ==
    /\ last.op = "sell" /\ ~last.ok /\ last.didRead /\ last.plain
    /\ nops >= 3
    /\ last.net = 25000
    /\ storage # <<>> /\ storage[1].cash = 75000
    /\ Len(storage[1].holdings) = 1

\* the positions of the symbols other than the given one, in their order
Others(holdings, symbol) == SelectSeq(holdings, LAMBDA holding : holding.symbol # symbol)

Unusable ==
    \/ screen.quote = <<>>
    \/ screen.quote[1].c <= 0
    \/ ParseInt(screen.quantityInput) = <<>>
    \/ ParseInt(screen.quantityInput)[1] <= 0

\* every call a caller of the screen has made carried a positive quantity
\* and a positive price
UsableCalls ==
    \A c \in Callers :
        calls[c].pc # "idle" => calls[c].quantity > 0 /\ calls[c].price > 0

(* C27: the trade screen never calls buyStock or sellStock with an         *)
(* unusable quote or quantity: every call it has made carried a positive   *)
(* quantity and price, and a press of Confirm while no quote is loaded,    *)
(* the current price of the quote is <= 0 or the text does not parse to a  *)
(* positive integer starts no call and leaves the ledger, the default      *)
(* holdings and the snapshot as they were.                                 *)
C27_NoUnusableTrade ==
    /\ []UsableCalls
    /\ [][\A c \in Callers :
             (Unusable /\ Confirm(c))
                 => UNCHANGED <<calls, nops, storage, mem, defaultHoldings>>]_vars

\* Confirm was pressed on a text that does not parse to a positive integer,
\* a positive price being loaded: the alert is up, no call has been made
C27_Witness ==
    /\ screen.mounted /\ screen.modalVisible
    /\ screen.quote # <<>> /\ screen.quote[1].c > 0
    /\ screen.quantityInput = <<"0">>
    /\ \E x \in screen.alerts : x.kind = "quantity"
    /\ nops = 0
    /\ \A c \in Callers : calls[c].pc = "idle"

\* the same on the zero-valued record of a symbol without a price
C27_PriceCase ==
    /\ screen.mounted /\ screen.modalVisible
    /\ screen.quote # <<>> /\ screen.quote[1].c = 0
    /\ \E x \in screen.alerts : x.kind = "price"
    /\ nops = 0

====
